---- MODULE Spec2Model ----
(***************************************************************************)
(* Model of the Kilter route explorer (src/app.py): the board renderer     *)
(* generate_board_svg with its hold-coordinate lookup, the grade           *)
(* normalisation, the route selection of one script rerun, and the         *)
(* zoom/pan callback update_zoom.                                          *)
(*                                                                         *)
(* Python values of mixed type are modelled as records of one shape each:  *)
(* a hold id is an int or a str, a string is a sequence of characters, a   *)
(* lookup that finds nothing is the record None, an exception is an        *)
(* outcome of its own.                                                     *)
(***************************************************************************)
EXTENDS Integers, Sequences, FiniteSets, TLC

VARIABLES
    \* the pickled data (load_data) handed to the renderer
    holds_map, layout,
    \* coordinate lookup under test: the hold id and the two lookups' outcomes
    h_arg, lookup_int, lookup_str, lookup_arg,
    \* generate_board_svg: the uuid it was called with and what it returned
    uuid_arg, svg_out,
    \* the route table and the widgets of one script run
    df, name_col, grade_col, normalized_grade, search_query, grade_range, clicked, selected_uuid, board,
    \* st.session_state, and the actions update_zoom was called with so far
    view_x, view_y, calls, n_ops,
    \* which part of the program the behaviour exercises
    pc

vars == <<holds_map, layout, h_arg, lookup_int, lookup_str, lookup_arg,
          uuid_arg, svg_out, df, name_col, grade_col, normalized_grade, search_query, grade_range, clicked,
          selected_uuid, board, view_x, view_y, calls, n_ops, pc>>

(***************************************************************************)
(* Bounds                                                                  *)
(***************************************************************************)
\* longest hold sequence of a route
MaxHolds == 2
\* entries of a layout map
MaxLayout == 2
\* rows of the route table
MaxRoutes == 2
\* update_zoom calls in one session
MaxOps == 4
\* zoom and pan button presses in one session of the script
MaxPresses == 1

(***************************************************************************)
(* Python strings and ints                                                 *)
(***************************************************************************)
\* "sup2" stands for the one character U+00B2 (superscript two): a digit for
\* str.isdigit, not a decimal for int().
Digits == <<"0", "1", "2", "3", "4", "5", "6", "7", "8", "9">>

DecimalChars == {Digits[i] : i \in 1..Len(Digits)}

DigitChars == DecimalChars \cup {"sup2"}

DigitChar(d) == Digits[d + 1]

DigitVal(c) == CHOOSE d \in 0..9 : Digits[d + 1] = c

\* str(n) of a non-negative int
RECURSIVE NatStr(_)
NatStr(n) == IF n < 10 THEN <<DigitChar(n)>>
             ELSE NatStr(n \div 10) \o <<DigitChar(n % 10)>>

\* str(n) of an int
IntStr(n) == IF n < 0 THEN <<"-">> \o NatStr(-n) ELSE NatStr(n)

\* a hold id: an int, or a str
I(n) == [t |-> "int", v |-> n, s |-> <<>>]

S(chars) == [t |-> "str", v |-> 0, s |-> chars]

\* str(h_id)
Str(h) == IF h.t = "int" THEN IntStr(h.v) ELSE h.s

\* str.isdigit(): non-empty and every character a digit
IsDigit(s) == Len(s) > 0 /\ \A i \in 1..Len(s) : s[i] \in DigitChars

\* int(s) of a string of decimal characters
RECURSIVE DecimalValue(_)
DecimalValue(s) == IF Len(s) = 0 THEN 0
                   ELSE 10 * DecimalValue(SubSeq(s, 1, Len(s) - 1)) + DigitVal(s[Len(s)])

\* whether int(h_id) raises ValueError, for an h_id whose str() passed isdigit()
IntRaises(h) == h.t = "str" /\ \E i \in 1..Len(h.s) : h.s[i] \notin DecimalChars

\* int(h_id), for an h_id whose str() passed isdigit() and that int() accepts
IntOf(h) == IF h.t = "int" THEN h.v ELSE DecimalValue(h.s)

(***************************************************************************)
(* layout.get and the coordinate lookup of generate_board_svg              *)
(***************************************************************************)
None == [ok |-> FALSE, x |-> 0, y |-> 0]

Raised == [ok |-> FALSE, x |-> -1, y |-> -1]

Coord(x, y) == [ok |-> TRUE, x |-> x, y |-> y]

\* dict.get(key): the value, or None
Get(lay, k) == IF k \in DOMAIN lay THEN lay[k] ELSE None

\* the key of the third lookup: int(h_id) if str(h_id).isdigit() else -1
ThirdKey(h) == IF IsDigit(Str(h)) THEN I(IntOf(h)) ELSE I(-1)

\* coords = layout.get(h_id) or layout.get(str(h_id)) or layout.get(<third key>):
\* the coordinates, None, or Raised when int() raises ValueError
Resolve(h, lay) ==
    IF Get(lay, h).ok THEN Get(lay, h)
    ELSE IF Get(lay, S(Str(h))).ok THEN Get(lay, S(Str(h)))
    ELSE IF IsDigit(Str(h)) /\ IntRaises(h) THEN Raised
    ELSE Get(lay, ThirdKey(h))

(***************************************************************************)
(* generate_board_svg                                                      *)
(***************************************************************************)
\* width, height = 160, 170
Width == 160

Height == 170

\* cx += 5; cy += 5
PadX == 5

PadY == 5

\* h_id, role = h_data, 13
DefaultRole == 13

\* colors.get(role, '#00FFFF')
DefaultColor == "#00FFFF"

ColorTable == [r \in {12, 13, 14, 15} |->
                 CASE r = 12 -> "#00DD00"
                   [] r = 13 -> "#00FFFF"
                   [] r = 14 -> "#FF00FF"
                   [] r = 15 -> "#FFA500"]

ColorOf(role) == IF role \in DOMAIN ColorTable THEN ColorTable[role] ELSE DefaultColor

\* an entry of a route's hold sequence: an (id, role) pair, or a bare id
Pair(h, role) == [shape |-> "pair", id |-> h, role |-> role]

Bare(h) == [shape |-> "bare", id |-> h, role |-> 0]

\* isinstance(h_data, (list, tuple)) and len(h_data) == 2
EntryId(e) == e.id

\* variant: a bare hold id takes role 12
EntryRoleStart(e) == IF e.shape = "pair" THEN e.role ELSE 12

EntryRole(e) == IF e.shape = "pair" THEN e.role ELSE DefaultRole

\* the primitives of a diagram, one record shape for all
Rect == [tag |-> "rect", cx |-> 0, cy |-> 0, w |-> Width, h |-> Height,
         r |-> "", fill |-> "#111", stroke |-> "", opacity |-> "", text |-> ""]

Label == [tag |-> "text", cx |-> 0, cy |-> 0, w |-> 0, h |-> 0,
          r |-> "", fill |-> "#555", stroke |-> "", opacity |-> "", text |-> "Select Route"]

Glow(cx, cy, c) == [tag |-> "circle", cx |-> cx, cy |-> cy, w |-> 0, h |-> 0,
                    r |-> "4", fill |-> c, stroke |-> "", opacity |-> "0.3", text |-> ""]

Core(cx, cy, c) == [tag |-> "circle", cx |-> cx, cy |-> cy, w |-> 0, h |-> 0,
                    r |-> "2", fill |-> c, stroke |-> "", opacity |-> "", text |-> ""]

Ring(cx, cy, c) == [tag |-> "circle", cx |-> cx, cy |-> cy, w |-> 0, h |-> 0,
                    r |-> "3.5", fill |-> "none", stroke |-> c, opacity |-> "", text |-> ""]

\* the three svg.append calls of one resolved hold
Cluster(coords, c) ==
    <<Glow(coords.x + PadX, coords.y + PadY, c),
      Core(coords.x + PadX, coords.y + PadY, c),
      Ring(coords.x + PadX, coords.y + PadY, c)>>

\* one pass of the for loop: the primitives the entry appends
EntryMarkers(e, lay) ==
    IF Resolve(EntryId(e), lay).ok
    THEN Cluster(Resolve(EntryId(e), lay), ColorOf(EntryRole(e)))
    ELSE <<>>

RECURSIVE Markers(_, _)
Markers(holds, lay) ==
    IF Len(holds) = 0 THEN <<>>
    ELSE EntryMarkers(Head(holds), lay) \o Markers(Tail(holds), lay)

\* the diagram values: kind "svg" is a returned string, kind "raise" an exception
Placeholder == [kind |-> "svg", viewW |-> Width, viewH |-> Height,
                styled |-> FALSE, elems |-> <<Label>>]

Panel(markers) == [kind |-> "svg", viewW |-> Width, viewH |-> Height,
                   styled |-> TRUE, elems |-> <<Rect>> \o markers]

ValueError == [kind |-> "raise", viewW |-> 0, viewH |-> 0,
               styled |-> FALSE, elems |-> <<>>]

NotCalled == [kind |-> "none", viewW |-> 0, viewH |-> 0,
              styled |-> FALSE, elems |-> <<>>]

\* holds_map.get(uuid, [])
RouteHolds(uuid, hm) == IF uuid \in DOMAIN hm THEN hm[uuid] ELSE <<>>

GenerateBoardSvg(uuid, hm, lay) ==
    LET route_holds == RouteHolds(uuid, hm) IN
    IF Len(route_holds) = 0 THEN Placeholder
    ELSE IF \E i \in 1..Len(route_holds) : Resolve(EntryId(route_holds[i]), lay) = Raised
         THEN ValueError
    ELSE Panel(Markers(route_holds, lay))

(***************************************************************************)
(* Inputs of the renderer                                                  *)
(***************************************************************************)
\* uuid None, and the uuids of the data
NoneUuid == "None"

IntIds == {-2, -1, 1}

\* the string forms met in the feeds: empty, decimal, signed, zero-padded,
\* non-numeric, and a digit that is no decimal
StrIds == {<<>>, <<"1">>, <<"-", "1">>, <<"0", "1">>, <<"a">>, <<"sup2">>}

HoldIds == {I(n) : n \in IntIds} \cup {S(s) : s \in StrIds}

\* a layout is keyed by hold ids in integer form, in string form, or both
LayoutKeys == {I(n) : n \in IntIds} \cup {S(IntStr(n)) : n \in IntIds}

Coords == {Coord(10, 20), Coord(30, 40)}

Layouts == UNION {[K -> Coords] :
                    K \in {J \in SUBSET LayoutKeys : Cardinality(J) <= MaxLayout}}

EmptyMap == [k \in {} |-> 0]

\* role codes: the four of the colour table, and one outside it
RoleCodes == {12, 13, 14, 15, 99}

\* hold-sequence entries: every hold id bare, every role code on a pair, and
\* pairs of an integer and of a string hold id
RouteEntries == {Bare(h) : h \in HoldIds}
                \cup {Pair(I(1), r) : r \in RoleCodes}
                \cup {Pair(S(<<"sup2">>), 13)}

Routes == UNION {[1..n -> RouteEntries] : n \in 0..MaxHolds}

Uuids == {"r1", "r2"}

(***************************************************************************)
(* Python floats are IEEE-754 doubles: every +, - and * of update_zoom     *)
(* rounds its exact result to 53 significant bits, ties to even.  A double *)
(* is modelled as [neg, m, e], standing for (-1)^neg * m * 2^e with m an   *)
(* odd natural number (or zero), m held as a little-endian sequence of     *)
(* limbs in base 2^15 so that no intermediate product leaves 32 bits.      *)
(* Magnitudes reachable within MaxOps calls from [0.0, 1.0] stay far from  *)
(* the overflow and subnormal thresholds, so exponents are unbounded here. *)
(***************************************************************************)
Limb == 2 ^ 15

LimbBits == 15

\* significand width of a double
MantBits == 53

RECURSIVE Pow2(_)
Pow2(n) == IF n = 0 THEN 1 ELSE 2 * Pow2(n - 1)

\* drop most-significant zero limbs
RECURSIVE BNorm(_)
BNorm(a) == IF a = <<>> THEN <<>>
            ELSE IF a[Len(a)] = 0 THEN BNorm(SubSeq(a, 1, Len(a) - 1))
            ELSE a

RECURSIVE BAddC(_, _, _)
BAddC(a, b, c) ==
    IF a = <<>> /\ b = <<>> THEN (IF c = 0 THEN <<>> ELSE <<c>>)
    ELSE LET x == IF a = <<>> THEN 0 ELSE Head(a)
             y == IF b = <<>> THEN 0 ELSE Head(b)
             s == x + y + c
         IN  <<s % Limb>> \o BAddC(IF a = <<>> THEN <<>> ELSE Tail(a),
                                   IF b = <<>> THEN <<>> ELSE Tail(b),
                                   s \div Limb)

BAdd(a, b) == BAddC(a, b, 0)

\* a - b - c for a >= b + c
RECURSIVE BSubC(_, _, _)
BSubC(a, b, c) ==
    IF a = <<>> THEN <<>>
    ELSE LET y == IF b = <<>> THEN 0 ELSE Head(b)
             d == Head(a) - y - c
         IN  <<d % Limb>> \o BSubC(Tail(a),
                                   IF b = <<>> THEN <<>> ELSE Tail(b),
                                   IF d < 0 THEN 1 ELSE 0)

BSub(a, b) == BNorm(BSubC(a, b, 0))

\* -1, 0, 1 as a < b, a = b, a > b
RECURSIVE BCmp(_, _)
BCmp(a, b) ==
    IF Len(a) # Len(b) THEN (IF Len(a) < Len(b) THEN -1 ELSE 1)
    ELSE IF a = <<>> THEN 0
    ELSE IF a[Len(a)] # b[Len(b)] THEN (IF a[Len(a)] < b[Len(b)] THEN -1 ELSE 1)
    ELSE BCmp(BNorm(SubSeq(a, 1, Len(a) - 1)), BNorm(SubSeq(b, 1, Len(b) - 1)))

\* a * k + c for 0 <= k < Limb
RECURSIVE BMulSmallC(_, _, _)
BMulSmallC(a, k, c) ==
    IF a = <<>> THEN (IF c = 0 THEN <<>> ELSE <<c>>)
    ELSE LET p == Head(a) * k + c
         IN  <<p % Limb>> \o BMulSmallC(Tail(a), k, p \div Limb)

BMulSmall(a, k) == BNorm(BMulSmallC(a, k, 0))

RECURSIVE BMul(_, _)
BMul(a, b) ==
    IF a = <<>> \/ b = <<>> THEN <<>>
    ELSE LET rest == BMul(a, Tail(b))
         IN  BAdd(BMulSmall(a, Head(b)),
                  IF rest = <<>> THEN <<>> ELSE <<0>> \o rest)

\* a * 2^n
BShl(a, n) ==
    IF a = <<>> THEN <<>>
    ELSE [i \in 1..(n \div LimbBits) |-> 0] \o BMulSmall(a, Pow2(n % LimbBits))

\* floor(a / 2^r) for 0 <= r < LimbBits, most significant limb first
RECURSIVE BShrSmall(_, _, _)
BShrSmall(a, r, carry) ==
    IF a = <<>> THEN <<>>
    ELSE LET top == a[Len(a)] + carry * Limb
         IN  BShrSmall(SubSeq(a, 1, Len(a) - 1), r, top % Pow2(r))
             \o <<top \div Pow2(r)>>

\* floor(a / 2^n)
BShr(a, n) ==
    IF n \div LimbBits >= Len(a) THEN <<>>
    ELSE BNorm(BShrSmall(SubSeq(a, n \div LimbBits + 1, Len(a)), n % LimbBits, 0))

RECURSIVE BitLenSmall(_)
BitLenSmall(k) == IF k = 0 THEN 0 ELSE 1 + BitLenSmall(k \div 2)

BBitLen(a) == IF a = <<>> THEN 0
              ELSE (Len(a) - 1) * LimbBits + BitLenSmall(a[Len(a)])

BOdd(a) == a # <<>> /\ a[1] % 2 = 1

\* number of trailing zero bits of a nonzero limb
RECURSIVE TrailingZerosSmall(_)
TrailingZerosSmall(k) == IF k % 2 = 1 THEN 0 ELSE 1 + TrailingZerosSmall(k \div 2)

\* number of trailing zero bits of a nonzero number
RECURSIVE TrailingZeros(_)
TrailingZeros(a) == IF Head(a) = 0 THEN LimbBits + TrailingZeros(Tail(a))
                    ELSE TrailingZerosSmall(Head(a))

\* the real number (-1)^neg * m * 2^e in lowest terms
Dyadic(neg, m, e) ==
    IF m = <<>> THEN [neg |-> FALSE, m |-> <<>>, e |-> 0]
    ELSE LET z == TrailingZeros(m)
         IN  [neg |-> neg, m |-> BShr(m, z), e |-> e + z]

FZero == Dyadic(FALSE, <<>>, 0)

FOne == Dyadic(FALSE, <<1>>, 0)

Min2(a, b) == IF a < b THEN a ELSE b

\* exact sum of two dyadic numbers
XAdd(a, b) ==
    LET e  == Min2(a.e, b.e)
        ma == BShl(a.m, a.e - e)
        mb == BShl(b.m, b.e - e)
        c  == BCmp(ma, mb)
    IN  IF a.m = <<>> THEN b
        ELSE IF b.m = <<>> THEN a
        ELSE IF a.neg = b.neg THEN Dyadic(a.neg, BAdd(ma, mb), e)
        ELSE IF c = 0 THEN FZero
        ELSE IF c > 0 THEN Dyadic(a.neg, BSub(ma, mb), e)
        ELSE Dyadic(b.neg, BSub(mb, ma), e)

XNeg(a) == IF a.m = <<>> THEN a ELSE [a EXCEPT !.neg = ~a.neg]

XSub(a, b) == XAdd(a, XNeg(b))

\* exact product of two dyadic numbers
XMul(a, b) == Dyadic(a.neg # b.neg, BMul(a.m, b.m), a.e + b.e)

\* a < b as real numbers
FLess(a, b) == LET d == XSub(a, b) IN d.m # <<>> /\ d.neg

\* round to nearest double, ties to even
FRound(a) ==
    IF BBitLen(a.m) <= MantBits THEN a
    ELSE LET k    == BBitLen(a.m) - MantBits
             q    == BShr(a.m, k)
             r    == BSub(a.m, BShl(q, k))
             c    == BCmp(r, BShl(<<1>>, k - 1))
             up   == c > 0 \/ (c = 0 /\ BOdd(q))
         IN  Dyadic(a.neg, IF up THEN BAdd(q, <<1>>) ELSE q, a.e + k)

\* Python's a + b, a - b, a * b on floats
FAdd(a, b) == FRound(XAdd(a, b))

FSub(a, b) == FRound(XSub(a, b))

FMul(a, b) == FRound(XMul(a, b))

(***************************************************************************)
(* st.session_state and update_zoom                                        *)
(***************************************************************************)
\* st.session_state['view_x'] = [0.0, 1.0]
InitialView == <<FZero, FOne>>

\* the double written 0.1: 3602879701896397 * 2^-55
TenthMantissa == <<19661, 6553, 13107, 102>>

\* variant: a zoom step of half the span
ZoomFactorHalf == Dyadic(FALSE, <<1>>, -1)

\* x_span*0.1
ZoomFactor == Dyadic(FALSE, TenthMantissa, -55)

\* step = 0.2, the double 3602879701896397 * 2^-54
PanStep == Dyadic(FALSE, TenthMantissa, -54)

\* x_span = x_max - x_min
Span(view) == FSub(view[2], view[1])

\* [min + span*0.1, max - span*0.1]
ZoomIn(view) ==
    LET d == FMul(Span(view), ZoomFactor)
    IN  <<FAdd(view[1], d), FSub(view[2], d)>>

\* [min - span*0.1, max + span*0.1]
ZoomOut(view) ==
    LET d == FMul(Span(view), ZoomFactor)
    IN  <<FSub(view[1], d), FAdd(view[2], d)>>

\* [min + span*step, max + span*step]
PanPlus(view) ==
    LET d == FMul(Span(view), PanStep)
    IN  <<FAdd(view[1], d), FAdd(view[2], d)>>

\* [min - span*step, max - span*step]
PanMinus(view) ==
    LET d == FMul(Span(view), PanStep)
    IN  <<FSub(view[1], d), FSub(view[2], d)>>

\* the actions passed by the six buttons
ButtonActions == {"in", "out", "left", "right", "up", "down"}

\* every kind of argument update_zoom can be called with
ZoomActions == ButtonActions \cup {"reset", "other"}

NewViewX(action, vx) ==
    CASE action = "in" -> ZoomIn(vx)
      [] action = "out" -> ZoomOut(vx)
      [] action = "left" -> PanMinus(vx)
      [] action = "right" -> PanPlus(vx)
      [] action = "reset" -> InitialView
      [] OTHER -> vx

NewViewY(action, vy) ==
    CASE action = "in" -> ZoomIn(vy)
      [] action = "out" -> ZoomOut(vy)
      [] action = "up" -> PanPlus(vy)
      [] action = "down" -> PanMinus(vy)
      [] action = "reset" -> InitialView
      [] OTHER -> vy

(***************************************************************************)
(* Grade normalisation: to_numeric(errors='coerce').fillna(0).astype(int)  *)
(***************************************************************************)
\* a source grade: an int, a float (in tenths), a str, or missing
GInt(n) == [t |-> "int", v |-> n, s |-> <<>>]

GFloat(tenths) == [t |-> "float", v |-> tenths, s |-> <<>>]

GStr(chars) == [t |-> "str", v |-> 0, s |-> chars]

GNone == [t |-> "none", v |-> 0, s |-> <<>>]

\* a float, in tenths, or NaN
NaN == [nan |-> TRUE, tenths |-> 0]

Num(tenths) == [nan |-> FALSE, tenths |-> tenths]

\* a str that to_numeric parses: an optional sign and decimal characters
IsNumeral(s) ==
    LET body == IF Len(s) > 0 /\ s[1] = "-" THEN Tail(s) ELSE s
    IN  Len(body) > 0 /\ \A i \in 1..Len(body) : body[i] \in DecimalChars

NumeralValue(s) == IF s[1] = "-" THEN -DecimalValue(Tail(s)) ELSE DecimalValue(s)

\* pd.to_numeric(..., errors='coerce')
ToNumeric(g) ==
    CASE g.t = "int" -> Num(10 * g.v)
      [] g.t = "float" -> Num(g.v)
      [] g.t = "str" -> IF IsNumeral(g.s) THEN Num(10 * NumeralValue(g.s)) ELSE NaN
      [] OTHER -> NaN

\* .fillna(0)
FillNa(f) == IF f.nan THEN Num(0) ELSE f

\* .astype(int): truncation towards zero
AsTypeInt(f) == IF f.tenths < 0 THEN -((-f.tenths) \div 10) ELSE f.tenths \div 10

NormalizedGrade(g) == AsTypeInt(FillNa(ToNumeric(g)))

(***************************************************************************)
(* One run of the script: filters, selection, board                        *)
(***************************************************************************)
\* str.lower() on the letters in use
Lower(c) == CASE c = "A" -> "a" [] c = "B" -> "b" [] c = "N" -> "n" [] OTHER -> c

\* p.lower() in c.lower(): a substring test
Contains(name, q) ==
    \E k \in 0..(Len(name) - Len(q)) :
        \A j \in 1..Len(q) : Lower(name[k + j]) = Lower(q[j])

\* Series.str.contains(query, case=False, na=False) takes the query as a
\* regular expression (regex=True is the default).  Patterns here are made of
\* letters, digits, "." and "(": re.compile raises re.error on an unclosed "("
PatternRaises(q) == \E j \in 1..Len(q) : q[j] = "("

\* one pattern character against one character: "." matches any, a letter
\* or digit itself, whatever the case
CharMatches(p, c) == p = "." \/ Lower(p) = Lower(c)

\* re.search(query, s, re.IGNORECASE) for a pattern that compiles
Search(s, q) ==
    \E k \in 0..(Len(s) - Len(q)) :
        \A j \in 1..Len(q) : CharMatches(q[j], s[k + j])

\* cols = df.columns.tolist()
Cols == <<"uuid", "name", "grade">>

\* the characters of a column name
ColChars(c) ==
    CASE c = "uuid" -> <<"u", "u", "i", "d">>
      [] c = "name" -> <<"n", "a", "m", "e">>
      [] OTHER -> <<"g", "r", "a", "d", "e">>

\* priority_names = ['climb_name', 'name', 'route_name', 'title']
PriorityNames ==
    << <<"c", "l", "i", "m", "b", "_", "n", "a", "m", "e">>,
       <<"n", "a", "m", "e">>,
       <<"r", "o", "u", "t", "e", "_", "n", "a", "m", "e">>,
       <<"t", "i", "t", "l", "e">> >>

\* ['difficulty', 'grade', 'display_difficulty', 'v_grade']
GradeNames ==
    << <<"d", "i", "f", "f", "i", "c", "u", "l", "t", "y">>,
       <<"g", "r", "a", "d", "e">>,
       <<"d", "i", "s", "p", "l", "a", "y", "_", "d", "i", "f", "f", "i", "c", "u", "l", "t", "y">>,
       <<"v", "_", "g", "r", "a", "d", "e">> >>

\* matches = [c for c in cols if p.lower() in c.lower()]
NameMatches(p, cols) == SelectSeq(cols, LAMBDA c : Contains(ColChars(c), p))

\* the first priority name some column contains picks the first such column
RECURSIVE DefaultNameFrom(_, _)
DefaultNameFrom(i, cols) ==
    IF i > Len(PriorityNames) THEN cols[1]
    ELSE IF NameMatches(PriorityNames[i], cols) # <<>>
         THEN NameMatches(PriorityNames[i], cols)[1]
         ELSE DefaultNameFrom(i + 1, cols)

DefaultNameCol(cols) == DefaultNameFrom(1, cols)

\* the first of the grade names that is a column
RECURSIVE DefaultGradeFrom(_, _)
DefaultGradeFrom(i, cols) ==
    IF i > Len(GradeNames) THEN cols[1]
    ELSE IF \E k \in 1..Len(cols) : ColChars(cols[k]) = GradeNames[i]
         THEN cols[CHOOSE k \in 1..Len(cols) : ColChars(cols[k]) = GradeNames[i]]
         ELSE DefaultGradeFrom(i + 1, cols)

DefaultGradeCol(cols) == DefaultGradeFrom(1, cols)

\* the uuids of the route table, in row order
UuidNames == <<"r1", "r2", "r3", "r4">>

\* the characters of a route uuid
UuidChars(u) == <<"r", DigitChar(CHOOSE i \in 1..Len(UuidNames) : u = UuidNames[i])>>

\* df[col] at one row: uuids and names are strs, a grade is as loaded
Cell(row, col) ==
    CASE col = "uuid" -> GStr(UuidChars(row.uuid))
      [] col = "name" -> GStr(row.name)
      [] OTHER -> row.grade

\* str(x) of a float held in tenths
FloatStr(tenths) ==
    (IF tenths < 0 THEN <<"-">> ELSE <<>>)
    \o NatStr((IF tenths < 0 THEN -tenths ELSE tenths) \div 10)
    \o <<".", DigitChar((IF tenths < 0 THEN -tenths ELSE tenths) % 10)>>

\* .astype(str) of one value of an object column
AsStr(g) ==
    CASE g.t = "int" -> IntStr(g.v)
      [] g.t = "float" -> FloatStr(g.v)
      [] g.t = "str" -> g.s
      [] OTHER -> <<"N", "o", "n", "e">>

\* mask of lines 134-136
Mask(row, grade, range, q, nc) ==
    /\ grade >= range[1]
    /\ grade <= range[2]
    /\ (q # <<>> => Search(AsStr(Cell(row, nc)), q))

\* filtered_df = df[mask]: the rows that pass, in order
RECURSIVE FilteredFrom(_, _, _, _, _, _)
FilteredFrom(i, table, grades, range, q, nc) ==
    IF i > Len(table) THEN <<>>
    ELSE (IF Mask(table[i], grades[i], range, q, nc) THEN <<table[i]>> ELSE <<>>)
         \o FilteredFrom(i + 1, table, grades, range, q, nc)

FilteredDf(table, grades, range, q, nc) == FilteredFrom(1, table, grades, range, q, nc)

\* lines 194-205: the clicked point, overridden by a search with one result
SelectedUuid(filtered, q, click) ==
    IF q # <<>> /\ Len(filtered) = 1 THEN filtered[1].uuid
    ELSE click

\* truth value of a uuid: None and '' are false
Truthy(u) == u # NoneUuid /\ u # ""

TableUuids(table) == {table[i].uuid : i \in 1..Len(table)}

\* lines 247-256
BoardFor(sel, table, hm, lay) ==
    IF Truthy(sel) /\ sel \in TableUuids(table)
    THEN GenerateBoardSvg(sel, hm, lay)
    ELSE GenerateBoardSvg(NoneUuid, EmptyMap, EmptyMap)

MinOf(f) == CHOOSE m \in {f[i] : i \in DOMAIN f} : \A i \in DOMAIN f : m <= f[i]

MaxOf(f) == CHOOSE m \in {f[i] : i \in DOMAIN f} : \A i \in DOMAIN f : m >= f[i]

\* inputs of the script
Queries == {<<>>, <<"a", "b">>, <<"1">>, <<".">>, <<"(">>}

\* a route's name and its grade as loaded
RouteRows ==
    { <<<<"A", "b">>, GInt(-1)>>,
      <<<<"A", "b">>, GFloat(-15)>>,
      <<<<"b">>, GStr(<<"3">>)>>,
      <<<<"b">>, GNone>> }

Tables == UNION {
    {[i \in 1..n |-> [uuid |-> UuidNames[i], name |-> f[i][1], grade |-> f[i][2]]] :
        f \in [1..n -> RouteRows]} : n \in 1..MaxRoutes}

AppHoldsMap == [u \in {"r1", "r2"} |->
                  IF u = "r1" THEN <<Pair(I(1), 12)>> ELSE <<Bare(S(<<"1">>))>>]

AppLayout == [k \in {I(1)} |-> Coord(10, 20)]

(***************************************************************************)
(* State outside the part a behaviour exercises                            *)
(***************************************************************************)
IdleLookup == /\ h_arg = I(1)
              /\ lookup_int = None /\ lookup_str = None /\ lookup_arg = None

IdleRender == uuid_arg = NoneUuid /\ svg_out = NotCalled

IdleApp == /\ df = <<>> /\ name_col = "" /\ grade_col = "" /\ normalized_grade = <<>> /\ search_query = <<>> /\ grade_range = <<0, 0>>
           /\ clicked = NoneUuid /\ selected_uuid = NoneUuid /\ board = NotCalled

IdleZoom == /\ view_x = InitialView /\ view_y = InitialView
            /\ calls = <<>> /\ n_ops = 0

(***************************************************************************)
(* The coordinate lookup, applied to a hold id and a layout                *)
(***************************************************************************)
InitResolve ==
    /\ pc = "resolve"
    /\ layout \in Layouts
    /\ holds_map = EmptyMap
    /\ h_arg \in HoldIds
    /\ lookup_int = None /\ lookup_str = None /\ lookup_arg = None
    /\ IdleRender /\ IdleApp /\ IdleZoom

\* the lookup of line 232 on h_arg as given
LookupHold ==
    /\ pc = "resolve"
    /\ lookup_arg' = Resolve(h_arg, layout)
    /\ pc' = "hold_done"
    /\ UNCHANGED <<holds_map, layout, h_arg, lookup_int, lookup_str, uuid_arg, svg_out,
                   df, name_col, grade_col, normalized_grade, search_query, grade_range, clicked, selected_uuid, board,
                   view_x, view_y, calls, n_ops>>

\* the lookup of line 232 on an integer hold id and on its string form
LookupForms ==
    /\ pc = "resolve"
    /\ h_arg.t = "int"
    /\ lookup_int' = Resolve(h_arg, layout)
    /\ lookup_str' = Resolve(S(Str(h_arg)), layout)
    /\ pc' = "forms_done"
    /\ UNCHANGED <<holds_map, layout, h_arg, lookup_arg, uuid_arg, svg_out,
                   df, name_col, grade_col, normalized_grade, search_query, grade_range, clicked, selected_uuid, board,
                   view_x, view_y, calls, n_ops>>

NextResolve == LookupHold \/ LookupForms

SpecResolve == InitResolve /\ [][NextResolve]_vars

(***************************************************************************)
(* generate_board_svg, applied to a uuid, a holds map and a layout         *)
(***************************************************************************)
InitRender ==
    /\ pc = "render"
    /\ layout \in Layouts
    /\ holds_map \in {[u \in {"r1"} |-> route] : route \in Routes}
    /\ IdleLookup /\ IdleRender /\ IdleApp /\ IdleZoom

Render(u) ==
    /\ pc = "render"
    /\ uuid_arg' = u
    /\ svg_out' = GenerateBoardSvg(u, holds_map, layout)
    /\ pc' = "rendered"
    /\ UNCHANGED <<holds_map, layout, h_arg, lookup_int, lookup_str, lookup_arg,
                   df, name_col, grade_col, normalized_grade, search_query, grade_range, clicked, selected_uuid, board,
                   view_x, view_y, calls, n_ops>>

NextRender == \E u \in Uuids \cup {NoneUuid} : Render(u)

SpecRender == InitRender /\ [][NextRender]_vars

(***************************************************************************)
(* Claims about the coordinate lookup                                      *)
(***************************************************************************)
\* C1: a hold id stored in the layout under its integer key or its string key
\* resolves to the same coordinates whether it is passed as the integer or as
\* its string form.
C1_SameCoordsEitherForm ==
    (pc = "forms_done"
     /\ (h_arg \in DOMAIN layout \/ S(Str(h_arg)) \in DOMAIN layout))
    => lookup_int = lookup_str

\* C2: a hold id absent from the layout as given, as its string form and as its
\* integer form (when the string form is a decimal numeral) is Unresolved, and a
\* hold is resolved only through one of those three keys.
C2_ResolvedOnlyByTriedForms ==
    LET str == Str(h_arg)
        numeric == Len(str) > 0 /\ \A i \in 1..Len(str) : str[i] \in DecimalChars
        tried == {h_arg, S(str)} \cup (IF numeric THEN {I(DecimalValue(str))} ELSE {})
    IN  pc = "hold_done"
        => /\ (tried \cap DOMAIN layout = {}) => lookup_arg = None
           /\ lookup_arg.ok => \E k \in tried \cap DOMAIN layout : lookup_arg = layout[k]

(***************************************************************************)
(* Claims about generate_board_svg                                         *)
(***************************************************************************)
\* C3: a route of n >= 1 entries of which k have no layout entry in any tried
\* form renders as exactly n - k clusters of three circles, and never raises.
C3_ClusterPerResolvedHold ==
    LET holds == RouteHolds(uuid_arg, holds_map)
        absent(h) ==
            LET str == Str(h)
                numeric == Len(str) > 0 /\ \A i \in 1..Len(str) : str[i] \in DecimalChars
                tried == {h, S(str)} \cup (IF numeric THEN {I(DecimalValue(str))} ELSE {})
            IN  tried \cap DOMAIN layout = {}
        k == Cardinality({i \in 1..Len(holds) : absent(holds[i].id)})
        circles == {i \in 1..Len(svg_out.elems) : svg_out.elems[i].tag = "circle"}
    IN  (pc = "rendered" /\ Len(holds) >= 1)
        => /\ svg_out.kind = "svg"
           /\ Cardinality(circles) = 3 * (Len(holds) - k)
           /\ Len(svg_out.elems) = 1 + 3 * (Len(holds) - k)

\* C4: the placeholder diagram is returned exactly when the uuid is None, is
\* absent from holds_map or maps to an empty sequence; a non-empty route whose
\* holds all lack a layout entry gives the panel with no cluster and no label.
C4_PlaceholderOnlyForNoHolds ==
    LET holds == RouteHolds(uuid_arg, holds_map)
        absent(h) ==
            LET str == Str(h)
                numeric == Len(str) > 0 /\ \A i \in 1..Len(str) : str[i] \in DecimalChars
                tried == {h, S(str)} \cup (IF numeric THEN {I(DecimalValue(str))} ELSE {})
            IN  tried \cap DOMAIN layout = {}
        noHolds == \/ uuid_arg = NoneUuid
                   \/ uuid_arg \notin DOMAIN holds_map
                   \/ holds_map[uuid_arg] = <<>>
    IN  pc = "rendered"
        => /\ (svg_out.kind = "svg" /\ svg_out.elems # <<>>
               /\ \E i \in 1..Len(svg_out.elems) : svg_out.elems[i].tag = "text")
              <=> noHolds
           /\ (~noHolds /\ \A i \in 1..Len(holds) : absent(holds[i].id))
              => (svg_out.kind = "svg" /\ svg_out.elems = <<Rect>>)

\* C5: generate_board_svg returns a diagram, never an exception.
C5_NeverRaises == pc = "rendered" => svg_out.kind = "svg"

\* C6: the three primitives of every emitted cluster carry the colour of the
\* hold's role: 12, 13, 14, 15 by the table, any other role the default, and a
\* bare hold id the colour of role 13.
C6_ClusterColourByRole ==
    LET holds == RouteHolds(uuid_arg, holds_map)
        shown == {i \in 1..Len(holds) : Resolve(holds[i].id, layout).ok}
        rank(i) == Cardinality({j \in shown : j <= i})
        colour(e) == IF e.shape = "bare" THEN "#00FFFF"
                     ELSE CASE e.role = 12 -> "#00DD00"
                            [] e.role = 13 -> "#00FFFF"
                            [] e.role = 14 -> "#FF00FF"
                            [] e.role = 15 -> "#FFA500"
                            [] OTHER -> "#00FFFF"
    IN  (pc = "rendered" /\ svg_out.kind = "svg" /\ svg_out.styled)
        => /\ Len(svg_out.elems) = 1 + 3 * Cardinality(shown)
           /\ \A i \in shown :
                LET b == 1 + 3 * (rank(i) - 1) IN
                /\ svg_out.elems[b + 1].tag = "circle"
                /\ svg_out.elems[b + 1].fill = colour(holds[i])
                /\ svg_out.elems[b + 2].tag = "circle"
                /\ svg_out.elems[b + 2].fill = colour(holds[i])
                /\ svg_out.elems[b + 3].tag = "circle"
                /\ svg_out.elems[b + 3].stroke = colour(holds[i])

\* a rendered route with a bare hold and a hold of a role outside the table,
\* both resolved
C6_Witness ==
    /\ pc = "rendered" /\ svg_out.kind = "svg" /\ svg_out.styled
    /\ Len(svg_out.elems) = 7
    /\ \E i, j \in 1..Len(RouteHolds(uuid_arg, holds_map)) :
          /\ RouteHolds(uuid_arg, holds_map)[i].shape = "bare"
          /\ RouteHolds(uuid_arg, holds_map)[j].shape = "pair"
          /\ RouteHolds(uuid_arg, holds_map)[j].role \notin {12, 13, 14, 15}

\* C8: every returned diagram holds the background panel: the empty-state one is
\* the panel and the label, the other the panel and then the clusters.
C8_BackgroundPanelAlways ==
    (pc = "rendered" /\ svg_out.kind = "svg")
    => /\ Len(svg_out.elems) >= 1
       /\ svg_out.elems[1] = Rect
       /\ \A i \in 2..Len(svg_out.elems) : svg_out.elems[i].tag \in {"text", "circle"}

(***************************************************************************)
(* The script, rerun on every interaction                                  *)
(***************************************************************************)
InitApp ==
    /\ pc = "loaded"
    /\ df \in Tables
    /\ holds_map = AppHoldsMap
    /\ layout = AppLayout
    /\ name_col = "" /\ grade_col = ""
    /\ normalized_grade = <<>> /\ search_query = <<>> /\ grade_range = <<0, 0>>
    /\ clicked = NoneUuid /\ selected_uuid = NoneUuid /\ board = NotCalled
    /\ IdleLookup /\ IdleRender /\ IdleZoom

\* df['normalized_grade'] of line 118 for the chosen grade column
GradesOf(table, gc) == [i \in 1..Len(table) |-> NormalizedGrade(Cell(table[i], gc))]

\* (min_g, max_g)
GradeBounds(grades) == <<MinOf(grades), MaxOf(grades)>>

\* what st.altair_chart is given: the rows of chart_df (each with its
\* normalized grade, which gc fixes), the tooltip columns and the two scale
\* domains.  Within MaxRoutes rows chart_df is filtered_df.
Chart(nc, gc, q, range, vx, vy) ==
    [data |-> FilteredDf(df, GradesOf(df, gc), range, q, nc),
     tooltip |-> <<nc, gc>>,
     domain |-> <<vx, vy>>]

\* the chart the last run drew; a run that raised drew none
CurrentChart == Chart(name_col, grade_col, search_query, grade_range, view_x, view_y)

\* event.selection['point_select']: st.altair_chart has no key, so a chart
\* whose data or specification changed, or that the last run did not draw, is
\* a new element, nothing selected
SelectionOf(chart) == IF pc = "ran" /\ chart = CurrentChart THEN clicked ELSE NoneUuid

\* the script up to line 136, where str.contains raises re.error: the widgets
\* above are read, no chart is drawn, nothing is selected, no board is drawn
RunRaises(nc, gc, q, range) ==
    /\ name_col' = nc
    /\ grade_col' = gc
    /\ normalized_grade' = GradesOf(df, gc)
    /\ search_query' = q
    /\ grade_range' = range
    /\ clicked' = NoneUuid
    /\ selected_uuid' = NoneUuid
    /\ board' = NotCalled
    /\ pc' = "raised"
    /\ UNCHANGED <<holds_map, layout, h_arg, lookup_int, lookup_str, lookup_arg,
                   uuid_arg, svg_out, df>>

\* one run of the script, top to bottom, with the widgets at nc, gc, q and
\* range and the chart selection at click
RunToEnd(nc, gc, q, range, click) ==
    LET grades == GradesOf(df, gc)
        sel == SelectedUuid(FilteredDf(df, grades, range, q, nc), q, click)
    IN  /\ name_col' = nc
        /\ grade_col' = gc
        /\ normalized_grade' = grades
        /\ search_query' = q
        /\ grade_range' = range
        /\ clicked' = click
        /\ selected_uuid' = sel
        /\ board' = BoardFor(sel, df, holds_map, layout)
        /\ pc' = "ran"
        /\ UNCHANGED <<holds_map, layout, h_arg, lookup_int, lookup_str, lookup_arg,
                       uuid_arg, svg_out, df>>

\* one run of the script
RunScript(nc, gc, q, range, click) ==
    IF q # <<>> /\ PatternRaises(q) THEN RunRaises(nc, gc, q, range)
    ELSE RunToEnd(nc, gc, q, range, click)

\* a run that a widget other than the buttons triggers: the selection is the
\* one the chart of this run reports
Rerun(nc, gc, q, range) ==
    /\ RunScript(nc, gc, q, range,
                 IF q # <<>> /\ PatternRaises(q) THEN NoneUuid
                 ELSE SelectionOf(Chart(nc, gc, q, range, view_x, view_y)))
    /\ UNCHANGED <<view_x, view_y, calls, n_ops>>

\* the first run: the select boxes at the detected columns, the slider at
\* (min_g, max_g), no query, no selection
FirstRun ==
    /\ pc = "loaded"
    /\ RunScript(DefaultNameCol(Cols), DefaultGradeCol(Cols), <<>>,
                 GradeBounds(GradesOf(df, DefaultGradeCol(Cols))), NoneUuid)
    /\ UNCHANGED <<view_x, view_y, calls, n_ops>>

\* the user picks the name column
SelectNameColumn(c) ==
    /\ pc \in {"ran", "raised"}
    /\ Rerun(c, grade_col, search_query, grade_range)

\* the user picks the grade column; a slider whose bounds changed is a new
\* slider, at its default (min_g, max_g)
SelectGradeColumn(c) ==
    /\ pc \in {"ran", "raised"}
    /\ Rerun(name_col, c, search_query,
             IF GradeBounds(GradesOf(df, c)) = GradeBounds(normalized_grade)
             THEN grade_range ELSE GradeBounds(GradesOf(df, c)))

\* the user types a query
TypeQuery(q) ==
    /\ pc \in {"ran", "raised"}
    /\ Rerun(name_col, grade_col, q, grade_range)

\* the user moves the grade slider within (min_g, max_g)
MoveGradeSlider(lo, hi) ==
    /\ pc \in {"ran", "raised"}
    /\ MinOf(normalized_grade) <= lo /\ lo <= hi /\ hi <= MaxOf(normalized_grade)
    /\ Rerun(name_col, grade_col, search_query, <<lo, hi>>)

\* the user clicks a point of the chart, or clears the selection: the chart
\* is the same element, with a new selection
ClickPoint(click) ==
    /\ pc = "ran"
    /\ click \in TableUuids(CurrentChart.data) \cup {NoneUuid}
    /\ RunScript(name_col, grade_col, search_query, grade_range, click)
    /\ UNCHANGED <<view_x, view_y, calls, n_ops>>

\* the user presses a zoom or pan button: update_zoom runs, then the script,
\* whose chart has the new scale domains
PressButton(action) ==
    /\ pc = "ran"
    /\ n_ops < MaxPresses
    /\ view_x' = NewViewX(action, view_x)
    /\ view_y' = NewViewY(action, view_y)
    /\ calls' = Append(calls, action)
    /\ n_ops' = n_ops + 1
    /\ RunScript(name_col, grade_col, search_query, grade_range,
                 SelectionOf(Chart(name_col, grade_col, search_query, grade_range,
                                   view_x', view_y')))

\* the normalized grades some row can have
GradeDomain == {NormalizedGrade(Cell([uuid |-> "r1", name |-> r[1], grade |-> r[2]], c)) :
                  r \in RouteRows, c \in {Cols[k] : k \in 1..Len(Cols)}}

\* st.slider on integer bounds offers every integer between them
SliderPositions ==
    (CHOOSE m \in GradeDomain : \A g \in GradeDomain : m <= g)
    .. (CHOOSE m \in GradeDomain : \A g \in GradeDomain : m >= g)

NextApp ==
    \/ FirstRun
    \/ \E c \in {Cols[k] : k \in 1..Len(Cols)} : SelectNameColumn(c)
    \/ \E c \in {Cols[k] : k \in 1..Len(Cols)} : SelectGradeColumn(c)
    \/ \E q \in Queries : TypeQuery(q)
    \/ \E lo \in SliderPositions, hi \in SliderPositions : MoveGradeSlider(lo, hi)
    \/ \E click \in {UuidNames[i] : i \in 1..MaxRoutes} \cup {NoneUuid} : ClickPoint(click)
    \/ \E action \in ButtonActions : PressButton(action)

SpecApp == InitApp /\ [][NextApp]_vars

(***************************************************************************)
(* update_zoom on its own; the six buttons are PressButton of the script   *)
(***************************************************************************)
InitZoom ==
    /\ pc = "zoom"
    /\ holds_map = EmptyMap /\ layout = EmptyMap
    /\ view_x = InitialView /\ view_y = InitialView
    /\ calls = <<>> /\ n_ops = 0
    /\ IdleLookup /\ IdleRender /\ IdleApp

\* one call of update_zoom
UpdateZoom(action) ==
    /\ pc = "zoom"
    /\ n_ops < MaxOps
    /\ view_x' = NewViewX(action, view_x)
    /\ view_y' = NewViewY(action, view_y)
    /\ calls' = Append(calls, action)
    /\ n_ops' = n_ops + 1
    /\ UNCHANGED <<holds_map, layout, h_arg, lookup_int, lookup_str, lookup_arg,
                   uuid_arg, svg_out, df, name_col, grade_col, normalized_grade,
                   search_query, grade_range, clicked, selected_uuid, board, pc>>

\* update_zoom called directly, with any argument
NextUpdateZoom == \E action \in ZoomActions : UpdateZoom(action)

SpecUpdateZoom == InitZoom /\ [][NextUpdateZoom]_vars

(***************************************************************************)
(* Claims about the script and the viewport                                *)
(***************************************************************************)
\* C7: after normalisation every grade is a non-negative integer, and a
\* non-numeric or missing value of the grade column is 0.
C7_GradeNonNegative ==
    pc \in {"ran", "raised"}
    => \A i \in 1..Len(df) :
         LET g == Cell(df[i], grade_col)
         IN  /\ normalized_grade[i] >= 0
             /\ (g.t = "none" \/ (g.t = "str" /\ ~IsNumeral(g.s)))
                => normalized_grade[i] = 0

\* C9: on every rerun, a non-empty search that exactly one route passes (grade
\* range, and name containing the query whatever the case) selects that route
\* whatever was clicked; otherwise the clicked uuid, if any, is selected; the
\* board shows the route's holds only for a selected uuid of the route table,
\* else the empty-state diagram.
C9_SelectionAndBoard ==
    LET passing == {i \in 1..Len(df) :
                      /\ normalized_grade[i] >= grade_range[1]
                      /\ normalized_grade[i] <= grade_range[2]
                      /\ LET name == AsStr(Cell(df[i], name_col))
                         IN  \E k \in 0..(Len(name) - Len(search_query)) :
                               \A j \in 1..Len(search_query) :
                                 Lower(name[k + j]) = Lower(search_query[j])}
        single == search_query # <<>> /\ Cardinality(passing) = 1
        inTable == \E i \in 1..Len(df) : df[i].uuid = selected_uuid
    IN  pc \in {"ran", "raised"}
        => /\ single => \E i \in passing : selected_uuid = df[i].uuid
           /\ ~single => selected_uuid = clicked
           /\ board # Placeholder => inTable
           /\ inTable => board = GenerateBoardSvg(selected_uuid, holds_map, layout)
           /\ ~inTable => board = Placeholder

\* the width of an interval as a real number
ExactSpan(view) == XSub(view[2], view[1])

\* an interval with each end moved by span*factor, up (1) or down (-1), as
\* real numbers: update_zoom's expressions with no result rounded
ExactMove(view, factor, lo, hi) ==
    LET d == XMul(ExactSpan(view), factor)
    IN  <<IF lo = 1 THEN XAdd(view[1], d) ELSE XSub(view[1], d),
          IF hi = 1 THEN XAdd(view[2], d) ELSE XSub(view[2], d)>>

ExactViewX(action, vx) ==
    CASE action = "in" -> ExactMove(vx, ZoomFactor, 1, -1)
      [] action = "out" -> ExactMove(vx, ZoomFactor, -1, 1)
      [] action = "left" -> ExactMove(vx, PanStep, -1, -1)
      [] action = "right" -> ExactMove(vx, PanStep, 1, 1)
      [] action = "reset" -> InitialView
      [] OTHER -> vx

ExactViewY(action, vy) ==
    CASE action = "in" -> ExactMove(vy, ZoomFactor, 1, -1)
      [] action = "out" -> ExactMove(vy, ZoomFactor, -1, 1)
      [] action = "up" -> ExactMove(vy, PanStep, 1, 1)
      [] action = "down" -> ExactMove(vy, PanStep, -1, -1)
      [] action = "reset" -> InitialView
      [] OTHER -> vy

\* <<view_x, view_y>> after the calls cs from [0, 1], in exact arithmetic
RECURSIVE ExactViews(_)
ExactViews(cs) ==
    IF cs = <<>> THEN <<InitialView, InitialView>>
    ELSE LET before == ExactViews(SubSeq(cs, 1, Len(cs) - 1))
             action == cs[Len(cs)]
         IN  <<ExactViewX(action, before[1]), ExactViewY(action, before[2])>>

====
